---- MODULE Spec2Model ----
(***************************************************************************)
(* A model of tokeniser.py: the Tokeniser class (tokenise_on_punctuation,  *)
(* train, tokenise, tokenise_with_count_threshold,                         *)
(* tokenise_with_freq_threshold) and the function get_stats.               *)
(*                                                                         *)
(* Representation.  A character is its Unicode code point, a string is a   *)
(* sequence of characters, a list of tokens is a sequence of strings.  A   *)
(* Python dict is the sequence of its <<key, value>> items in insertion    *)
(* order.  The numbers vocab_sum_reciprocal and vocab_freq are exact       *)
(* rationals <<numerator, denominator>> with a positive denominator, kept  *)
(* unreduced and compared by cross-multiplication; the rounding of the     *)
(* binary floating point numbers python computes them in is not modelled   *)
(* (for the corpora and thresholds within the bounds below the float       *)
(* comparisons of the code agree with the exact ones).                     *)
(***************************************************************************)
EXTENDS Integers, Sequences, FiniteSets, TLC

VARIABLES
    check_train,           \* self.__check_train
    vocabulary,            \* self.__vocabulary
    vocab_counts,          \* self.__vocab_counts
    vocab_sum_reciprocal,  \* self.__vocab_sum_reciprocal
    vocab_freq,            \* self.__vocab_freq
    call,                  \* the call that has just finished, with its outcome
    train_succeeded,       \* history: some train call has returned normally
    last_train,            \* history: the latest train call, its text and its end
    writer,                \* a thread inside train (concurrent specification)
    reader                 \* a thread inside tokenise_with_freq_threshold

instance == <<check_train, vocabulary, vocab_counts, vocab_sum_reciprocal, vocab_freq>>

history == <<train_succeeded, last_train>>

vars == <<check_train, vocabulary, vocab_counts, vocab_sum_reciprocal, vocab_freq,
          call, train_succeeded, last_train, writer, reader>>

----------------------------------------------------------------------------
(* Bounds of the model and the inputs the operations are called with.      *)

MaxCorpusTokens == 3

MaxTextLen == 3

MaxSplitLen == 3

MaxTokens == 3

\* 'a', 'b' and the space
Letters == {97, 98}

TextAlphabet == Letters \cup {32}

\* 'a', 'B', space, newline, ',', '-', '$', the right single quotation mark
SplitAlphabet == {97, 66, 32, 10, 44, 45, 36, 8217}

RECURSIVE StringsUpTo(_, _)
StringsUpTo(alphabet, n) ==
    IF n = 0 THEN {<<>>}
    ELSE LET shorter == StringsUpTo(alphabet, n - 1)
         IN  shorter \cup {Append(s, c) : s \in shorter, c \in alphabet}

\* the tokens training corpora are made of: 'a', 'b', 'ab'
CorpusTokens == {<<97>>, <<98>>, <<97, 98>>}

RECURSIVE ListsUpTo(_, _)
ListsUpTo(items, n) ==
    IF n = 0 THEN {<<>>}
    ELSE LET shorter == ListsUpTo(items, n - 1)
         IN  shorter \cup {Append(s, x) : s \in shorter, x \in items}

\* " ".join(tokens)
RECURSIVE JoinSpaces(_)
JoinSpaces(tokens) ==
    IF tokens = <<>> THEN <<>>
    ELSE IF Len(tokens) = 1 THEN Head(tokens)
         ELSE Head(tokens) \o <<32>> \o JoinSpaces(Tail(tokens))

\* the corpora train is called with: up to MaxCorpusTokens tokens joined by
\* spaces, and the corpora ' ' and ',' that like '' hold no token
CorpusTexts ==
    {JoinSpaces(tokens) : tokens \in ListsUpTo(CorpusTokens, MaxCorpusTokens)}
        \cup {<<32>>, <<44>>}

Texts == StringsUpTo(TextAlphabet, MaxTextLen)

SplitTexts == StringsUpTo(SplitAlphabet, MaxSplitLen)

CountThresholds == {0, 1, 2, 3}

\* -1/2, 0, 1/2, 1, 3/2
FreqThresholds == {<<-1, 2>>, <<0, 1>>, <<1, 2>>, <<1, 1>>, <<3, 2>>}

----------------------------------------------------------------------------
(* Rationals.                                                              *)

RatGeq(x, y) == x[1] * y[2] >= y[1] * x[2]

RatScale(k, x) == <<k * x[1], x[2]>>

----------------------------------------------------------------------------
(* The splitting rule: re.sub(pattern, " ", text).split().                 *)

\* Punctuation with "," and "." but no range between them (no hyphen)
PunctuationWithoutRange ==
    {33, 35, 37, 38, 39, 40, 41, 42, 44, 46}
      \cup {47, 58, 59, 63, 64, 91, 93, 95, 123, 125}
      \cup {161, 167, 171, 182, 183, 187, 191}
      \cup {8216, 8217, 8220, 8221, 8211, 8212, 34}

\* the character class [!#%&'()*,-./:;?@[\]_{}...\"] ; ",-." is a range
Punctuation ==
    {33, 35, 37, 38, 39, 40, 41, 42} \cup (44 .. 46)
      \cup {47, 58, 59, 63, 64, 91, 93, 95, 123, 125}
      \cup {161, 167, 171, 182, 183, 187, 191}
      \cup {8216, 8217, 8220, 8221, 8211, 8212, 34}

\* \s of a str pattern, and the characters str.split() splits on
Whitespace ==
    (9 .. 13) \cup (28 .. 32) \cup {133, 160, 5760} \cup (8192 .. 8202)
      \cup {8232, 8233, 8239, 8287, 12288}

PatternMatches(c) == c \in Punctuation \/ c \in Whitespace

re_sub(text) ==
    [i \in 1 .. Len(text) |-> IF PatternMatches(text[i]) THEN 32 ELSE text[i]]

RECURSIVE SplitFrom(_, _, _, _)
SplitFrom(s, i, cur, acc) ==
    IF i > Len(s)
    THEN IF cur = <<>> THEN acc ELSE Append(acc, cur)
    ELSE IF s[i] \in Whitespace
         THEN SplitFrom(s, i + 1, <<>>, IF cur = <<>> THEN acc ELSE Append(acc, cur))
         ELSE SplitFrom(s, i + 1, Append(cur, s[i]), acc)

str_split(s) == SplitFrom(s, 1, <<>>, <<>>)

SplitWords(text) == str_split(re_sub(text))

----------------------------------------------------------------------------
(* dict and Counter.                                                       *)

DictKeys(d) == [i \in 1 .. Len(d) |-> d[i][1]]

DictValues(d) == [i \in 1 .. Len(d) |-> d[i][2]]

InList(x, list) == \E i \in 1 .. Len(list) : list[i] = x

\* d[k] = d.get(k, 0) + 1: a new key goes last, an old one keeps its place
DictIncrement(d, k) ==
    IF InList(k, DictKeys(d))
    THEN [i \in 1 .. Len(d) |-> IF d[i][1] = k THEN <<k, d[i][2] + 1>> ELSE d[i]]
    ELSE Append(d, <<k, 1>>)

RECURSIVE CounterFrom(_, _, _)
CounterFrom(items, i, d) ==
    IF i > Len(items) THEN d
    ELSE CounterFrom(items, i + 1, DictIncrement(d, items[i]))

Counter(items) == CounterFrom(items, 1, <<>>)

RECURSIVE SumFrom(_, _)
SumFrom(values, i) ==
    IF i > Len(values) THEN 0 ELSE values[i] + SumFrom(values, i + 1)

sum(values) == SumFrom(values, 1)

\* dict(zip(keys, values)): zip stops at the shorter of the two
DictZip(keys, values) ==
    LET n == IF Len(keys) <= Len(values) THEN Len(keys) ELSE Len(values)
    IN  [i \in 1 .. n |-> <<keys[i], values[i]>>]

----------------------------------------------------------------------------
(* The outcome of a call, as its caller sees it: the value returned, or    *)
(* the exception raised ("" when the call returned).                       *)

NoCall ==
    [op |-> "none", text |-> <<>>, threshold |-> 0, use_unk |-> FALSE,
     raised |-> "", result |-> <<>>]

Returned(op, text, threshold, use_unk, result) ==
    [op |-> op, text |-> text, threshold |-> threshold, use_unk |-> use_unk,
     raised |-> "", result |-> result]

Raised(op, text, threshold, use_unk, exception) ==
    [op |-> op, text |-> text, threshold |-> threshold, use_unk |-> use_unk,
     raised |-> exception, result |-> <<>>]

\* the token 'UNK'
UNK == <<85, 78, 75>>

----------------------------------------------------------------------------
(* Tokeniser.__init__                                                      *)

Init ==
    /\ check_train = FALSE
    /\ vocabulary = <<>>
    /\ vocab_counts = <<>>
    /\ vocab_sum_reciprocal = <<0, 1>>
    /\ vocab_freq = <<>>
    /\ call = NoCall
    /\ train_succeeded = FALSE
    /\ last_train = [text |-> <<>>, returned |-> FALSE]
    /\ writer = [pc |-> "idle"]
    /\ reader = [pc |-> "idle"]

----------------------------------------------------------------------------
(* Tokeniser.tokenise_on_punctuation                                       *)

tokenise_on_punctuation(text) ==
    /\ call.op = "none"
    /\ call' = Returned("tokenise_on_punctuation", text, 0, FALSE, SplitWords(text))
    /\ UNCHANGED <<instance, history, writer, reader>>

----------------------------------------------------------------------------
(* Tokeniser.train                                                         *)

\* line 31: each count times the reciprocal, in the order of the dict
Frequencies(counts, reciprocal) ==
    [i \in 1 .. Len(counts) |-> RatScale(counts[i][2], reciprocal)]

train(text) ==
    /\ call.op = "none"
    /\ LET words == re_sub(text)
           new_vocabulary == str_split(words)
           new_counts == Counter(new_vocabulary)
           total == sum(DictValues(new_counts))
       IN  /\ check_train' = TRUE
           /\ vocabulary' = new_vocabulary
           /\ vocab_counts' = new_counts
           /\ IF total = 0
              THEN /\ UNCHANGED <<vocab_sum_reciprocal, vocab_freq, train_succeeded>>
                   /\ last_train' = [text |-> text, returned |-> FALSE]
                   /\ call' = Raised("train", text, 0, FALSE, "ZeroDivisionError")
              ELSE /\ vocab_sum_reciprocal' = <<1, total>>
                   /\ vocab_freq' = Frequencies(new_counts, <<1, total>>)
                   /\ train_succeeded' = TRUE
                   /\ last_train' = [text |-> text, returned |-> TRUE]
                   /\ call' = Returned("train", text, 0, FALSE, <<>>)
    /\ UNCHANGED <<writer, reader>>

----------------------------------------------------------------------------
(* The loop the three vocabulary-aware operations share (lines 42-51,      *)
(* 70-79, 101-110).                                                        *)

RECURSIVE AppendLetters(_, _, _)
AppendLetters(output, token, i) ==
    IF i > Len(token) THEN output
    ELSE AppendLetters(Append(output, <<token[i]>>), token, i + 1)

\* EmitLetters that appends the token whole
EmitWholeToken(output, token) == Append(output, token)

EmitLetters(output, token) == AppendLetters(output, token, 1)

RECURSIVE TokeniseFrom(_, _, _, _, _)
TokeniseFrom(words, i, members, use_unk, output) ==
    IF i > Len(words) THEN output
    ELSE LET token == words[i]
         IN  IF InList(token, members)
             THEN TokeniseFrom(words, i + 1, members, use_unk, Append(output, token))
             ELSE IF ~InList(token, members) /\ use_unk = TRUE
                  THEN TokeniseFrom(words, i + 1, members, use_unk, Append(output, UNK))
                  ELSE TokeniseFrom(words, i + 1, members, use_unk,
                                    EmitLetters(output, token))

\* TokeniseLoop that starts at the second word
TokeniseLoopFromSecond(words, members, use_unk) ==
    TokeniseFrom(words, 2, members, use_unk, <<>>)

TokeniseLoop(words, members, use_unk) == TokeniseFrom(words, 1, members, use_unk, <<>>)

----------------------------------------------------------------------------
(* Tokeniser.tokenise                                                      *)

tokenise(text, use_unk) ==
    /\ call.op = "none"
    /\ IF check_train = TRUE
       THEN call' = Returned("tokenise", text, 0, use_unk,
                             TokeniseLoop(SplitWords(text), vocabulary, use_unk))
       ELSE call' = Raised("tokenise", text, 0, use_unk, "RuntimeError")
    /\ UNCHANGED <<instance, history, writer, reader>>

----------------------------------------------------------------------------
(* Tokeniser.tokenise_with_count_threshold                                 *)

\* threshold_vocab with the comparison turned round
threshold_vocab_at_most(counts, threshold) ==
    SelectSeq(counts, LAMBDA item : item[2] <= threshold)

\* threshold_vocab with > for >=
threshold_vocab_strict(counts, threshold) ==
    SelectSeq(counts, LAMBDA item : item[2] > threshold)

\* lines 65-68: the items of vocab_counts whose count reaches the threshold
threshold_vocab(counts, threshold) ==
    SelectSeq(counts, LAMBDA item : item[2] >= threshold)

tokenise_with_count_threshold(text, threshold, use_unk) ==
    /\ call.op = "none"
    /\ IF check_train = TRUE
       THEN call' = Returned("tokenise_with_count_threshold", text, threshold, use_unk,
                             TokeniseLoop(SplitWords(text),
                                          DictKeys(threshold_vocab(vocab_counts, threshold)),
                                          use_unk))
       ELSE call' = Raised("tokenise_with_count_threshold", text, threshold, use_unk,
                           "RuntimeError")
    /\ UNCHANGED <<instance, history, writer, reader>>

----------------------------------------------------------------------------
(* Tokeniser.tokenise_with_freq_threshold                                  *)

\* line 89: 0 <= threshold <= 1
threshold_in_range(threshold) ==
    RatGeq(threshold, <<0, 1>>) /\ RatGeq(<<1, 1>>, threshold)

\* lines 95-99: the keys of vocab_counts paired with vocab_freq, filtered
freq_vocab(counts, freqs, threshold) ==
    SelectSeq(DictZip(DictKeys(counts), freqs), LAMBDA item : RatGeq(item[2], threshold))

\* freq_threshold_raises with the trained check before the threshold check
freq_threshold_raises_flag_first(threshold, trained) ==
    IF trained # TRUE THEN "RuntimeError"
    ELSE IF ~threshold_in_range(threshold) THEN "ValueError"
    ELSE ""

\* lines 89-91 and 111-112: the exception the call ends with, "" for none
freq_threshold_raises(threshold, trained) ==
    IF ~threshold_in_range(threshold) THEN "ValueError"
    ELSE IF trained = TRUE THEN ""
    ELSE "RuntimeError"

tokenise_with_freq_threshold(text, threshold, use_unk) ==
    /\ call.op = "none"
    /\ LET exception == freq_threshold_raises(threshold, check_train)
       IN  IF exception = ""
           THEN call' = Returned("tokenise_with_freq_threshold", text, threshold, use_unk,
                                 TokeniseLoop(SplitWords(text),
                                              DictKeys(freq_vocab(vocab_counts, vocab_freq,
                                                                  threshold)),
                                              use_unk))
           ELSE call' = Raised("tokenise_with_freq_threshold", text, threshold, use_unk,
                               exception)
    /\ UNCHANGED <<instance, history, writer, reader>>

----------------------------------------------------------------------------
(* The caller takes the outcome of the call and goes on to its next call   *)
(* (main prints the list tokenise_on_punctuation returned and drops it).   *)

CallerContinues ==
    /\ call.op # "none"
    /\ call' = NoCall
    /\ UNCHANGED <<instance, history, writer, reader>>

----------------------------------------------------------------------------
(* One Tokeniser used by one thread.                                       *)

Next ==
    \/ \E text \in CorpusTexts : train(text)
    \/ \E text \in Texts, use_unk \in BOOLEAN : tokenise(text, use_unk)
    \/ \E text \in Texts, threshold \in CountThresholds, use_unk \in BOOLEAN :
          tokenise_with_count_threshold(text, threshold, use_unk)
    \/ \E text \in Texts, threshold \in FreqThresholds, use_unk \in BOOLEAN :
          tokenise_with_freq_threshold(text, threshold, use_unk)
    \/ CallerContinues

Spec == Init /\ [][Next]_vars

----------------------------------------------------------------------------
(* tokenise_on_punctuation alone, on a Tokeniser that was never trained.   *)

NextSplit ==
    \/ \E text \in SplitTexts : tokenise_on_punctuation(text)
    \/ CallerContinues

SpecSplit == Init /\ [][NextSplit]_vars

----------------------------------------------------------------------------
(* get_stats                                                               *)

\* the tokens get_stats is given: '', 'a', 'b', 'ab', 'aaa'
StatTokens == {<<>>, <<97>>, <<98>>, <<97, 98>>, <<97, 97, 97>>}

TokenLists == ListsUpTo(StatTokens, MaxTokens)

\* sorted(char_counts.items()): the keys are distinct, so the key decides
RECURSIVE InsertSorted(_, _)
InsertSorted(item, sorted_list) ==
    IF sorted_list = <<>> THEN <<item>>
    ELSE IF item[1] <= Head(sorted_list)[1] THEN <<item>> \o sorted_list
         ELSE <<Head(sorted_list)>> \o InsertSorted(item, Tail(sorted_list))

RECURSIVE SortFrom(_, _, _)
SortFrom(items, i, acc) ==
    IF i > Len(items) THEN acc
    ELSE SortFrom(items, i + 1, InsertSorted(items[i], acc))

\* sorted that leaves the items in insertion order
sorted_as_inserted(items) == items

sorted(items) == SortFrom(items, 1, <<>>)

\* statistics.stdev squared: (n * sum of squares - square of the sum) / (n * (n - 1))
SampleVariance(data) ==
    LET n == Len(data)
        squares == [i \in 1 .. n |-> data[i] * data[i]]
    IN  <<n * sum(squares) - sum(data) * sum(data), n * (n - 1)>>

\* The record d; token_length_std is held as its square, the sample variance.
StatsRecord(tokenised_text) ==
    LET counts == Counter(tokenised_text)
        type_count == Len(DictKeys(counts))
        token_count == sum(DictValues(counts))
        chars == [i \in 1 .. Len(tokenised_text) |-> Len(tokenised_text[i])]
        char_counts == Counter(chars)
    IN  [type_count |-> type_count,
         token_count |-> token_count,
         type_token_ratio |-> <<type_count, token_count>>,
         token_count_by_length |-> sorted(char_counts),
         average_token_length |-> <<sum(chars), Len(chars)>>,
         token_length_variance |-> SampleVariance(chars)]

\* line 129 divides by token_count; statistics.stdev needs two data points
stats_raises(tokenised_text) ==
    IF sum(DictValues(Counter(tokenised_text))) = 0 THEN "ZeroDivisionError"
    ELSE IF Len(tokenised_text) < 2 THEN "StatisticsError"
    ELSE ""

get_stats(tokenised_text) ==
    /\ call.op = "none"
    /\ LET exception == stats_raises(tokenised_text)
       IN  IF exception = ""
           THEN call' = Returned("get_stats", tokenised_text, 0, FALSE,
                                 StatsRecord(tokenised_text))
           ELSE call' = Raised("get_stats", tokenised_text, 0, FALSE, exception)
    /\ UNCHANGED <<instance, history, writer, reader>>

NextStats ==
    \/ \E tokenised_text \in TokenLists : get_stats(tokenised_text)
    \/ CallerContinues

SpecStats == Init /\ [][NextStats]_vars

----------------------------------------------------------------------------
(* One Tokeniser shared by two threads with no lock: one calls train, the  *)
(* other tokenise_with_freq_threshold.  A thread switch can fall between   *)
(* any two statements, so train is one step per assignment to a field of   *)
(* the instance (lines 27 to 31), and the reader one step per read of the  *)
(* instance (lines 91 and 95); what a thread does on its locals goes with  *)
(* the step before.                                                        *)

\* '', 'a', 'a b', 'b a'
ConcCorpora == {<<>>, <<97>>, <<97, 32, 98>>, <<98, 32, 97>>}

\* 'b', 'ab'
ConcTexts == {<<98>>, <<97, 98>>}

Fields(flag, voc, counts, reciprocal, freqs) ==
    [check_train |-> flag, vocabulary |-> voc, vocab_counts |-> counts,
     vocab_sum_reciprocal |-> reciprocal, vocab_freq |-> freqs]

CurrentFields ==
    Fields(check_train, vocabulary, vocab_counts, vocab_sum_reciprocal, vocab_freq)

\* line 26, and the state the call starts from (kept for the properties)
train_line_26(text) ==
    /\ writer.pc = "idle"
    /\ writer' = [pc |-> "27", words |-> re_sub(text), before |-> CurrentFields]
    /\ UNCHANGED <<instance, call, history, reader>>

\* train_line_27 that leaves the flag for later
train_line_27_flag_later ==
    /\ writer.pc = "27"
    /\ writer' = [writer EXCEPT !.pc = "28"]
    /\ UNCHANGED <<instance, call, history, reader>>

train_line_27 ==
    /\ writer.pc = "27"
    /\ check_train' = TRUE
    /\ writer' = [writer EXCEPT !.pc = "28"]
    /\ UNCHANGED <<vocabulary, vocab_counts, vocab_sum_reciprocal, vocab_freq,
                   call, history, reader>>

train_line_28 ==
    /\ writer.pc = "28"
    /\ vocabulary' = str_split(writer.words)
    /\ writer' = [writer EXCEPT !.pc = "29"]
    /\ UNCHANGED <<check_train, vocab_counts, vocab_sum_reciprocal, vocab_freq,
                   call, history, reader>>

train_line_29 ==
    /\ writer.pc = "29"
    /\ vocab_counts' = Counter(vocabulary)
    /\ writer' = [writer EXCEPT !.pc = "30"]
    /\ UNCHANGED <<check_train, vocabulary, vocab_sum_reciprocal, vocab_freq,
                   call, history, reader>>

\* the division raises on an empty vocab_counts and the call ends there
train_line_30 ==
    /\ writer.pc = "30"
    /\ LET total == sum(DictValues(vocab_counts))
       IN  IF total = 0
           THEN /\ writer' = [pc |-> "idle"]
                /\ UNCHANGED vocab_sum_reciprocal
           ELSE /\ writer' = [writer EXCEPT !.pc = "31"]
                /\ vocab_sum_reciprocal' = <<1, total>>
    /\ UNCHANGED <<check_train, vocabulary, vocab_counts, vocab_freq,
                   call, history, reader>>

train_line_31 ==
    /\ writer.pc = "31"
    /\ vocab_freq' = Frequencies(vocab_counts, vocab_sum_reciprocal)
    /\ writer' = [pc |-> "idle"]
    /\ train_succeeded' = TRUE
    /\ UNCHANGED <<check_train, vocabulary, vocab_counts, vocab_sum_reciprocal,
                   call, last_train, reader>>

ReaderDone(r, exception, result) ==
    [pc |-> "done", text |-> r.text, threshold |-> r.threshold, use_unk |-> r.use_unk,
     raised |-> exception, result |-> result]

\* line 89
freq_line_89(text, threshold, use_unk) ==
    /\ reader.pc = "idle"
    /\ LET r == [pc |-> "91", text |-> text, threshold |-> threshold, use_unk |-> use_unk]
       IN  reader' = IF threshold_in_range(threshold) THEN r
                     ELSE ReaderDone(r, "ValueError", <<>>)
    /\ UNCHANGED <<instance, call, history, writer>>

\* line 91 (and 112)
freq_line_91 ==
    /\ reader.pc = "91"
    /\ reader' = IF check_train = TRUE THEN [reader EXCEPT !.pc = "95"]
                 ELSE ReaderDone(reader, "RuntimeError", <<>>)
    /\ UNCHANGED <<instance, call, history, writer>>

\* line 95 reads vocab_counts and vocab_freq; lines 96 to 110 work on locals
freq_line_95 ==
    /\ reader.pc = "95"
    /\ reader' = ReaderDone(reader, "",
                            TokeniseLoop(SplitWords(reader.text),
                                         DictKeys(freq_vocab(vocab_counts, vocab_freq,
                                                             reader.threshold)),
                                         reader.use_unk))
    /\ UNCHANGED <<instance, call, history, writer>>

ReaderContinues ==
    /\ reader.pc = "done"
    /\ reader' = [pc |-> "idle"]
    /\ UNCHANGED <<instance, call, history, writer>>

NextConc ==
    \/ \E text \in ConcCorpora : train_line_26(text)
    \/ train_line_27
    \/ train_line_28
    \/ train_line_29
    \/ train_line_30
    \/ train_line_31
    \/ \E text \in ConcTexts, threshold \in FreqThresholds, use_unk \in BOOLEAN :
          freq_line_89(text, threshold, use_unk)
    \/ freq_line_91
    \/ freq_line_95
    \/ ReaderContinues

SpecConc == Init /\ [][NextConc]_vars

----------------------------------------------------------------------------
(* What the properties below are stated with.                              *)

Elements(list) == {list[i] : i \in 1 .. Len(list)}

Occurrences(x, list) == Cardinality({i \in 1 .. Len(list) : list[i] = x})

RECURSIVE Flatten(_)
Flatten(lists) ==
    IF lists = <<>> THEN <<>> ELSE Head(lists) \o Flatten(Tail(lists))

VocabularyOps ==
    {"tokenise", "tokenise_with_count_threshold", "tokenise_with_freq_threshold"}

\* the characters the pattern lists, one by one: ! " # % & ' ( ) * , - . / : ; ? @
\* [ ] _ { } and the inverted marks, section, guillemets, pilcrow, middle dot,
\* curly quotes and dashes
ListedPunctuation ==
    {33, 34, 35, 37, 38, 39, 40, 41, 42, 44, 45, 46, 47, 58, 59, 63, 64, 91, 93, 95,
     123, 125, 161, 167, 171, 182, 183, 187, 191, 8211, 8212, 8216, 8217, 8220, 8221}

IsSeparator(c) == c \in ListedPunctuation \/ c \in Whitespace

\* the rational threshold lies in [0, 1]
InUnitInterval(threshold) == 0 <= threshold[1] /\ threshold[1] <= threshold[2]

\* The active vocabulary of a call, from the training corpus's tokens alone.
ActiveVocabulary(c) ==
    CASE c.op = "tokenise" -> Elements(vocabulary)
      [] c.op = "tokenise_with_count_threshold" ->
           {w \in Elements(vocabulary) : Occurrences(w, vocabulary) >= c.threshold}
      [] c.op = "tokenise_with_freq_threshold" ->
           {w \in Elements(vocabulary) :
               Occurrences(w, vocabulary) * c.threshold[2]
                   >= c.threshold[1] * Len(vocabulary)}

\* one block per word: the word, 'UNK', or the word's characters in order
Block(word, active, use_unk) ==
    IF word \in active THEN <<word>>
    ELSE IF use_unk THEN <<UNK>>
    ELSE [i \in 1 .. Len(word) |-> <<word[i]>>]

ExpectedOutput(words, active, use_unk) ==
    Flatten([i \in 1 .. Len(words) |-> Block(words[i], active, use_unk)])

----------------------------------------------------------------------------
\* C1: as long as no train call has returned normally, every call of tokenise,
\* tokenise_with_count_threshold and tokenise_with_freq_threshold (threshold in
\* [0, 1]) fails with the untrained error (RuntimeError) and returns nothing.
C1_UntrainedUntilTrainSucceeds ==
    (/\ ~train_succeeded
     /\ call.op \in VocabularyOps
     /\ call.op = "tokenise_with_freq_threshold" => InUnitInterval(call.threshold))
        => call.raised = "RuntimeError"

\* C2: tokenise_with_freq_threshold checks its threshold before anything else: a
\* threshold below 0 or above 1 ends in the validation error (ValueError) whether or
\* not the instance is trained, a threshold in [0, 1] (0 and 1 included) never does,
\* and on a trained instance the thresholds 0 and 1 return a token sequence.
C2_ThresholdValidatedFirst ==
    call.op = "tokenise_with_freq_threshold" =>
        LET t == call.threshold
        IN  /\ (t[1] < 0 \/ t[1] > t[2]) => call.raised = "ValueError"
            /\ (0 <= t[1] /\ t[1] <= t[2]) => call.raised # "ValueError"
            /\ ((t[1] = 0 \/ t[1] = t[2]) /\ check_train) => call.raised = ""

\* C2's case: an untrained instance and a threshold above 1 give the ValueError.
C2_Witness ==
    /\ call.op = "tokenise_with_freq_threshold"
    /\ ~check_train
    /\ call.threshold[1] > call.threshold[2]
    /\ call.raised = "ValueError"

C4_FullVocabularyRoundTrip ==
    /\ last_train.returned => SplitWords(last_train.text) # <<>>
    /\ (call.op = "tokenise" /\ last_train.returned /\ call.text = last_train.text) =>
           /\ call.raised = ""
           /\ call.result = SplitWords(call.text)

\* C4's case: tokenise with use_unk on the corpus 'a b' of the latest train call.
C4_Witness ==
    /\ call.op = "tokenise"
    /\ call.use_unk
    /\ last_train.returned
    /\ last_train.text = <<97, 32, 98>>
    /\ call.text = last_train.text
    /\ call.result = << <<97>>, <<98>> >>

\* C5: for thresholds t1 <= t2 the active vocabulary of
\* tokenise_with_count_threshold under t2 is a subset of that under t1; every token
\* emitted as itself under t2 is emitted as itself under t1, and with use_unk the
\* output under t1 holds no more 'UNK' than the output under t2.
C5_CountThresholdMonotone ==
    (call.op = "tokenise_with_count_threshold" /\ call.raised = "") =>
        \A t1 \in -1 .. 4 :
            t1 <= call.threshold =>
                LET words == SplitWords(call.text)
                    active1 == DictKeys(threshold_vocab(vocab_counts, t1))
                    active2 == DictKeys(threshold_vocab(vocab_counts, call.threshold))
                    output1 == TokeniseLoop(words, active1, call.use_unk)
                IN  /\ Elements(active2) \subseteq Elements(active1)
                    /\ call.result = TokeniseLoop(words, active2, call.use_unk)
                    /\ \A w \in Elements(words) :
                           InList(w, active2) => InList(w, output1)
                    /\ call.use_unk => Occurrences(UNK, output1)
                                           <= Occurrences(UNK, call.result)

\* C5's case: trained on 'a a b', threshold 2 turns 'b' into 'UNK' and keeps 'a'.
C5_Witness ==
    /\ call.op = "tokenise_with_count_threshold"
    /\ call.threshold = 2
    /\ call.use_unk
    /\ call.text = <<98, 32, 97>>
    /\ vocabulary = << <<97>>, <<97>>, <<98>> >>
    /\ call.result = << UNK, <<97>> >>

\* C6: a train call that fails leaves the whole instance state as it was.
C6_FailedTrainChangesNothing ==
    [][(call'.op = "train" /\ call'.raised # "") => UNCHANGED instance]_vars

\* C10: on an instance whose flag is set, tokenise, tokenise_with_count_threshold
\* with a threshold <= 1 and tokenise_with_freq_threshold with threshold 0 return
\* the same sequence for the same text and use_unk; the keys of vocab_counts are
\* the elements of vocabulary.
C10_VariantsAgreeOnFullVocabulary ==
    /\ Elements(DictKeys(vocab_counts)) = Elements(vocabulary)
    /\ (/\ call.raised = ""
        /\ \/ call.op = "tokenise"
           \/ call.op = "tokenise_with_count_threshold" /\ call.threshold <= 1
           \/ call.op = "tokenise_with_freq_threshold" /\ call.threshold[1] = 0) =>
           LET words == SplitWords(call.text)
           IN  /\ check_train
               /\ call.result = TokeniseLoop(words, vocabulary, call.use_unk)
               /\ \A t \in -1 .. 1 :
                      call.result = TokeniseLoop(
                          words, DictKeys(threshold_vocab(vocab_counts, t)), call.use_unk)
               /\ call.result = TokeniseLoop(
                      words, DictKeys(freq_vocab(vocab_counts, vocab_freq, <<0, 1>>)),
                      call.use_unk)

\* C10's case: count threshold 1 on a text with a token trained once and one never
\* seen.
C10_Witness ==
    /\ call.op = "tokenise_with_count_threshold"
    /\ call.threshold = 1
    /\ ~call.use_unk
    /\ call.text = <<98, 32, 97>>
    /\ vocabulary = << <<97, 98>>, <<98>> >>
    /\ call.result = << <<98>>, <<97>> >>

\* What tokenise_with_freq_threshold gives when it runs alone on an instance
\* with the fields f.
OutcomeOn(f, text, threshold, use_unk) ==
    LET exception == freq_threshold_raises(threshold, f.check_train)
    IN  [raised |-> exception,
         result |-> IF exception # "" THEN <<>>
                    ELSE TokeniseLoop(SplitWords(text),
                                      DictKeys(freq_vocab(f.vocab_counts, f.vocab_freq,
                                                          threshold)),
                                      use_unk)]

\* The fields a train call on the substituted text words ends with, when it
\* started from the fields f.
FieldsAfterTrain(f, words) ==
    LET voc == str_split(words)
        counts == Counter(voc)
        total == sum(DictValues(counts))
    IN  IF total = 0
        THEN Fields(TRUE, voc, counts, f.vocab_sum_reciprocal, f.vocab_freq)
        ELSE Fields(TRUE, voc, counts, <<1, total>>, Frequencies(counts, <<1, total>>))

\* C9: train replaces the fields one at a time: while a train call is between its
\* statements the instance any other thread reads has the flag already set over
\* the vocabulary and vocab_counts of before the call (after line 27), and the
\* vocab_counts of the new corpus beside the vocab_freq of before the call (after
\* line 29, until line 31 has run).
C9_TrainReplacesFieldsOneAtATime ==
    /\ writer.pc = "28" =>
           /\ check_train = TRUE
           /\ vocabulary = writer.before.vocabulary
           /\ vocab_counts = writer.before.vocab_counts
           /\ vocab_freq = writer.before.vocab_freq
    /\ writer.pc \in {"30", "31"} =>
           /\ check_train = TRUE
           /\ vocab_counts = Counter(str_split(writer.words))
           /\ vocab_freq = writer.before.vocab_freq
    /\ writer.pc = "idle" =>
           \/ ~check_train
           \/ Elements(DictKeys(vocab_counts)) = Elements(vocabulary)

\* C9's case: a reader that passed the trained check reads, while train is before
\* line 31, the new vocab_counts paired with the old vocab_freq, and returns what it
\* would return neither on the instance of before the train call nor on the
\* instance that call leaves.
C9_Witness ==
    /\ reader.pc = "done"
    /\ reader.raised = ""
    /\ writer.pc \in {"30", "31"}
    /\ writer.before.check_train
    /\ LET got == [raised |-> reader.raised, result |-> reader.result]
       IN  /\ got # OutcomeOn(writer.before, reader.text, reader.threshold,
                              reader.use_unk)
           /\ got # OutcomeOn(FieldsAfterTrain(writer.before, writer.words),
                              reader.text, reader.threshold, reader.use_unk)

\* C7: tokenise_on_punctuation needs no training and never fails; no token it
\* returns is empty or holds whitespace or a listed punctuation character; the
\* tokens are the text's other characters in input order; splitting the tokens
\* joined by single spaces gives the same tokens; the empty string gives no token.
C7_SplitIsIdempotent ==
    call.op = "tokenise_on_punctuation" =>
        /\ call.raised = ""
        /\ \A i \in 1 .. Len(call.result) :
               /\ call.result[i] # <<>>
               /\ \A j \in 1 .. Len(call.result[i]) : ~IsSeparator(call.result[i][j])
        /\ Flatten(call.result) = SelectSeq(call.text, LAMBDA c : ~IsSeparator(c))
        /\ SplitWords(JoinSpaces(call.result)) = call.result
        /\ call.text = <<>> => call.result = <<>>

\* C7's case: on an untrained instance 'a-B' splits at the hyphen of the range
\* ",-." into 'a' and 'B'.
C7_Witness ==
    /\ call.op = "tokenise_on_punctuation"
    /\ ~check_train
    /\ call.text = <<97, 45, 66>>
    /\ call.result = << <<97>>, <<66>> >>

\* C8: get_stats fails on no token and on one token; on two or more it returns
\* type_count = the number of distinct tokens, token_count = the number of tokens,
\* 1 <= type_count <= token_count, and token_count_by_length with the lengths that
\* occur as keys in ascending order, each with the number of tokens of that length,
\* the values adding up to token_count.
C8_StatsCounts ==
    call.op = "get_stats" =>
        LET tokens == call.text
            lengths == {Len(tokens[i]) : i \in 1 .. Len(tokens)}
        IN  /\ Len(tokens) < 2 => call.raised # ""
            /\ Len(tokens) >= 2 =>
                   LET d == call.result
                       by_length == d.token_count_by_length
                   IN  /\ call.raised = ""
                       /\ d.type_count = Cardinality(Elements(tokens))
                       /\ d.token_count = Len(tokens)
                       /\ 1 <= d.type_count /\ d.type_count <= d.token_count
                       /\ \A i \in 1 .. Len(by_length) - 1 :
                              by_length[i][1] < by_length[i + 1][1]
                       /\ Elements(DictKeys(by_length)) = lengths
                       /\ \A i \in 1 .. Len(by_length) :
                              by_length[i][2] =
                                  Cardinality({j \in 1 .. Len(tokens) :
                                                  Len(tokens[j]) = by_length[i][1]})
                       /\ sum(DictValues(by_length)) = d.token_count

\* C8's case: ['aaa', 'a', 'aaa'] has 2 types, 3 tokens and the lengths {1: 1, 3: 2},
\* met in the order 3, 1.
C8_Witness ==
    /\ call.op = "get_stats"
    /\ call.text = << <<97, 97, 97>>, <<97>>, <<97, 97, 97>> >>
    /\ call.raised = ""
    /\ call.result.type_count = 2
    /\ call.result.token_count = 3
    /\ call.result.token_count_by_length = << <<1, 1>>, <<3, 2>> >>

====
